---- MODULE Spec2Model ----
(***************************************************************************)
(* A model of dump2png (src/dump2png.c): one run of the program, from the  *)
(* parsed command line to the last row handed to the png encoder.          *)
(*                                                                         *)
(* The inputs of a run (the option values, the palette, the input file)    *)
(* are drawn in Init.  Main is main() up to the call of doimage, Setup is  *)
(* the prologue of doimage (allocation and png header), Row is one         *)
(* iteration of the y loop (read, pixel loop, png_write_row) and WriteEnd  *)
(* is png_write_end with the return to main.                               *)
(*                                                                         *)
(* Four reads in the source have no defined value; each is a choice:       *)
(*   - `last` is read by the dvi palette before it is first assigned: any  *)
(*     byte;                                                               *)
(*   - cells of inbuf at or after `in` are read by the zoom loop, and hold *)
(*     the bytes of an earlier row or, in the first row, whatever malloc   *)
(*     returned: any byte in each cell, one cell independently of the      *)
(*     other.  A never-written cell stays unassigned in inbuf, the colour  *)
(*     of a sample that reads one is unassigned, and so is the average it  *)
(*     enters;                                                             *)
(*   - `rgb` is stored as the pixel without having been assigned when the  *)
(*     zoom loop does not run (zoom < 1): the three bytes are only masked  *)
(*     and copied;                                                         *)
(*   - color16 and color32 modify and read xx in one expression without a  *)
(*     sequence point, so the build decides which cells are combined: any  *)
(*     order of the reads, every increment at any time after its read.     *)
(*                                                                         *)
(* An unassigned byte of the row buffer is not given a value: it is kept   *)
(* as Uninit (UninitMasked once masked), and Bytes gives a set that holds  *)
(* every value the program can leave in it.                                *)
(***************************************************************************)
EXTENDS Integers, Sequences, FiniteSets, TLC

(***************************************************************************)
(* Bounds of the model.                                                    *)
(***************************************************************************)
MaxWidth == 2
MaxHeight == 2
MaxZoom == 2
MaxSkip == 2
MaxFileLen == 8

\* the content of a memory cell that was never written, and of a byte
\* computed from one
Uninit == -1

\* what an unwritten byte can turn out to hold
Garbage == 0..255

\* an unassigned byte after `&= BYTE_MASK`: its value is not known, its low
\* bit is clear
UninitMasked == -2

\* rgb before anything was stored in it
UninitRgb == <<Uninit, Uninit, Uninit>>

Palettes ==
    {"gray", "gray16b", "gray32b", "gray16l", "gray32l", "hues", "hues6",
     "fhues", "color", "color16", "color32", "rgb", "dvi", "x86"}

\* The operands of the unsequenced sum of color16 (2) and color32 (4): all
\* but the last are inbuf[xx++], the last is inbuf[xx].
Operands(p) ==
    CASE p = "color16" -> 2
      [] p = "color32" -> 4
      [] OTHER -> 0

\* o[i] is the offset from xx of the cell operand i reads, for a build that
\* reads the operands in the order rd[1], rd[2], ...: an operand sees the
\* increments of the operands read before it that have been stored by
\* then (none of the last operand, which has no ++)
Achieves(rd, o, n) ==
    \A j \in 1..n :
       /\ \A i \in 1..(j - 1) : o[rd[i]] <= o[rd[j]]
       /\ o[rd[j]] <= Cardinality({i \in 1..(j - 1) : rd[i] < n})

\* what a build can make of the expression: the offsets of its operands
EvalOrders(p) ==
    LET n == Operands(p) IN
    {o \in [1..n -> 0..(n - 1)] :
        \E rd \in Permutations(1..n) : Achieves(rd, o, n)}

BYTE_MASK == 254

Black == <<0, 0, 0>>

Min(a, b) == IF a < b THEN a ELSE b
Max(a, b) == IF a > b THEN a ELSE b
Abs(a) == IF a < 0 THEN 0 - a ELSE a

(***************************************************************************)
(* C integer arithmetic.                                                   *)
(***************************************************************************)
\* a / b on C integers: the quotient truncated toward zero
CDiv(a, b) ==
    IF (a >= 0) = (b > 0) THEN Abs(a) \div Abs(b) ELSE 0 - (Abs(a) \div Abs(b))

\* ceil((float)q / w): the least integer not below q / w.  The conversions
\* to float are exact for the magnitudes of the model (below 2^24).
CeilQuot(q, w) ==
    IF (q >= 0) = (w > 0)
    THEN (Abs(q) + Abs(w) - 1) \div Abs(w)
    ELSE 0 - (Abs(q) \div Abs(w))

\* a & b on two bytes, bit by bit
RECURSIVE BitAnd8(_, _)
BitAnd8(a, b) ==
    IF a = 0 \/ b = 0 THEN 0
    ELSE (a % 2) * (b % 2) + 2 * BitAnd8(a \div 2, b \div 2)

\* the table of a & b on bytes
AndTable == [a \in 0..255 |-> [b \in 0..255 |-> BitAnd8(a, b)]]

\* a & b on non-negative integers, a byte at a time
RECURSIVE BitAnd(_, _)
BitAnd(a, b) ==
    IF a = 0 \/ b = 0 THEN 0
    ELSE AndTable[a % 256][b % 256] + 256 * BitAnd(a \div 256, b \div 256)

Pow2(n) == 2 ^ n

Shl(a, n) == a * Pow2(n)
Shr(a, n) == a \div Pow2(n)

\* the assignment of an int to a png_byte / unsigned char
ToByte(v) == v % 256

(***************************************************************************)
(* The palettes.                                                           *)
(***************************************************************************)
pal2chrs(p) ==
    CASE p = "rgb" -> 3
      [] p \in {"gray16b", "gray16l", "color16"} -> 2
      [] p \in {"gray32b", "gray32l", "color32"} -> 4
      [] OTHER -> 1

map_hues(val) ==
    LET v == val * 3 IN
    IF v < 256 THEN <<ToByte(v), 0, 0>>
    ELSE IF v < 512 THEN <<0, v % 256, 0>>
    ELSE <<0, 0, v % 256>>

map_fhues(val) ==
    LET v == val * 6 IN
    IF v < 256 THEN <<ToByte(v), 0, 0>>
    ELSE IF v < 256 * 2 THEN <<255, v % 256, v % 256>>
    ELSE IF v < 256 * 3 THEN <<0, v % 256, 0>>
    ELSE IF v < 256 * 4 THEN <<v % 256, 255, v % 256>>
    ELSE IF v < 256 * 5 THEN <<0, 0, v % 256>>
    ELSE <<v % 256, v % 256, 255>>

map_hues6(val) ==
    LET v == val * 6 IN
    IF v < 256 THEN <<ToByte(v), 0, 0>>
    ELSE IF v < 256 * 2 THEN <<0, v % 256, 0>>
    ELSE IF v < 256 * 3 THEN <<0, 0, v % 256>>
    ELSE IF v < 256 * 4 THEN <<0, v % 256, v % 256>>
    ELSE IF v < 256 * 5 THEN <<v % 256, 0, v % 256>>
    ELSE <<v % 256, v % 256, 0>>

\* val is an unsigned short: the argument is reduced modulo 2^16
map_color16(val16) ==
    LET val == val16 % 65536 IN
    <<ToByte(Shr(BitAnd(val, 64512), 8)),
      ToByte(Shr(BitAnd(val, 960), 2)),
      ToByte(Shl(BitAnd(val, 31), 3))>>

\* val is wider than the integers of the checker, so it is held as its two
\* 16-bit halves: val = hi * 2^16 + lo.  The masks are split the same way:
\* 0xff000000 is 0xff00 of hi, 0x001fe000 is 0x001f of hi with 0xe000 of lo,
\* and 0x000001fe is 0x01fe of lo.  Bits above 31 are never looked at.
map_color32(lo, hi) ==
    <<ToByte(Shr(BitAnd(hi, 65280), 8)),
      ToByte(Shl(BitAnd(hi, 31), 3) + Shr(BitAnd(lo, 57344), 13)),
      ToByte(Shr(BitAnd(lo, 510), 1))>>

c2v_binary(c) ==
    CASE c = 1 -> 255
      [] c = 2 -> 207
      [] c = 3 -> 175
      [] OTHER -> 0

c2v_english(c) ==
    CASE c = 101 -> 255
      [] c = 116 -> 207
      [] c = 97 -> 175
      [] OTHER -> 0

c2v_x86(c) ==
    CASE c = 139 -> 255
      [] c = 232 -> 207
      [] c = 133 -> 175
      [] OTHER -> 0

map_x86(c) ==
    LET r == c2v_x86(c)
        g == c2v_english(c)
        b == c2v_binary(c)
    IN  IF r + g + b = 0 THEN <<c, c, c>> ELSE <<r, g, b>>

map_color(c) ==
    <<BitAnd(c, 224), ToByte(Shl(BitAnd(c, 28), 3)), ToByte(Shl(BitAnd(c, 3), 6))>>

map_dvi(c, lst) ==
    <<ToByte(Abs(c - lst)), c, ToByte((c + lst) \div 2)>>

(***************************************************************************)
(* The pixel loop of doimage.                                              *)
(***************************************************************************)
\* One pass through the palette switch for the sample at xx, on cells that
\* hold bytes: the colour put
\* in rgb, the value of xx when the case breaks (the for statement adds one
\* more) and the cells of inbuf that were read.
Sample(p, buf, xx, lst, ord) ==
    CASE p = "gray" ->
           [rgb |-> <<buf[xx], buf[xx], buf[xx]>>, xx |-> xx, rd |-> {xx}]
      [] p = "gray16b" ->
           [rgb |-> <<buf[xx], buf[xx], buf[xx]>>, xx |-> xx + 1, rd |-> {xx}]
      [] p = "gray32b" ->
           [rgb |-> <<buf[xx], buf[xx], buf[xx]>>, xx |-> xx + 3, rd |-> {xx}]
      [] p = "gray16l" ->
           [rgb |-> <<buf[xx + 1], buf[xx + 1], buf[xx + 1]>>,
            xx |-> xx + 1, rd |-> {xx + 1}]
      [] p = "gray32l" ->
           [rgb |-> <<buf[xx + 3], buf[xx + 3], buf[xx + 3]>>,
            xx |-> xx + 3, rd |-> {xx + 3}]
      [] p = "hues" -> [rgb |-> map_hues(buf[xx]), xx |-> xx, rd |-> {xx}]
      [] p = "hues6" -> [rgb |-> map_hues6(buf[xx]), xx |-> xx, rd |-> {xx}]
      [] p = "fhues" -> [rgb |-> map_fhues(buf[xx]), xx |-> xx, rd |-> {xx}]
      [] p = "color" -> [rgb |-> map_color(buf[xx]), xx |-> xx, rd |-> {xx}]
      [] p = "color16" ->
           [rgb |-> map_color16(buf[xx + ord[1]] + Shl(buf[xx + ord[2]], 8)),
            xx |-> xx + 1, rd |-> {xx + ord[1], xx + ord[2]}]
      [] p = "color32" ->
           [rgb |-> map_color32(buf[xx + ord[1]] + Shl(buf[xx + ord[2]], 8),
                                buf[xx + ord[3]] + Shl(buf[xx + ord[4]], 8)),
            xx |-> xx + 3,
            rd |-> {xx + ord[1], xx + ord[2], xx + ord[3], xx + ord[4]}]
      [] p = "rgb" ->
           [rgb |-> <<buf[xx], buf[xx + 1], buf[xx + 2]>>,
            xx |-> xx + 2, rd |-> {xx, xx + 1, xx + 2}]
      [] p = "x86" -> [rgb |-> map_x86(buf[xx]), xx |-> xx, rd |-> {xx}]
      [] p = "dvi" -> [rgb |-> map_dvi(buf[xx], lst), xx |-> xx, rd |-> {xx}]

\* The palette switch on inbuf as it is: a colour decoded from a cell that
\* was never written is unassigned.
Decode(p, buf, xx, lst, ord) ==
    LET s == Sample(p, buf, xx, lst, ord) IN
    IF \E i \in s.rd : buf[i] = Uninit
    THEN [rgb |-> UninitRgb, xx |-> s.xx, rd |-> s.rd]
    ELSE s

\* sum[i] += rgb[i]: unassigned once an unassigned byte is added
AddChannel(sum, v) == IF sum = Uninit \/ v = Uninit THEN Uninit ELSE sum + v

\* the end of one pass of the z loop: s is the sample just decoded; sum is
\* only kept when zoom > 1, and the for statement steps xx once more
Accumulate(zm, st, s) ==
    [xx |-> s.xx + 1,
     sum |-> IF zm > 1 THEN [i \in 1..3 |-> AddChannel(st.sum[i], s.rgb[i])]
             ELSE st.sum,
     rgb |-> s.rgb,
     rd |-> st.rd \cup s.rd]

\* for (z = 0; z < zoom; z++, xx++): st holds xx, sum, rgb and the cells read
RECURSIVE ZoomLoop(_, _, _, _, _, _, _)
ZoomLoop(p, zm, buf, lst, ord, z, st) ==
    IF z < zm
    THEN ZoomLoop(p, zm, buf, lst, ord, z + 1,
                  Accumulate(zm, st, Decode(p, buf, st.xx, lst, ord)))
    ELSE st

\* a variant of Average that rounds to nearest instead of truncating
AverageRounded(zm, st) ==
    IF zm > 1
    THEN [i \in 1..3 |-> IF st.sum[i] = Uninit THEN Uninit
                         ELSE ToByte((st.sum[i] + zm \div 2) \div zm)]
    ELSE st.rgb

\* rgb[i] = sum[i] / zoom when zoom > 1
Average(zm, st) ==
    IF zm > 1
    THEN [i \in 1..3 |-> IF st.sum[i] = Uninit THEN Uninit
                         ELSE ToByte(st.sum[i] \div zm)]
    ELSE st.rgb

\* v & BYTE_MASK for the content v of a byte of rgb
MaskByte(v) ==
    IF v \in {Uninit, UninitMasked} THEN UninitMasked ELSE BitAnd(v, BYTE_MASK)

\* a variant of ApplyMask that leaves the blue channel alone
ApplyMaskTwoChannels(msk, rgb) ==
    IF msk THEN <<MaskByte(rgb[1]), MaskByte(rgb[2]), rgb[3]>> ELSE rgb

\* rgb[i] = rgb[i] & BYTE_MASK when mask is set
ApplyMask(msk, rgb) ==
    IF msk THEN [i \in 1..3 |-> MaskByte(rgb[i])] ELSE rgb

\* a variant of Exhausted that also gives up on the unit that ends the chunk
ExhaustedOneByte(xx, chrs, in) == xx + chrs >= in

\* the end-of-input test at the head of the x loop
Exhausted(xx, chrs, in) == xx + chrs > in

\* a variant of NextXX that drops skip - 1 bytes after every pixel
NextXXStride(zst, k) == zst.xx + (k - 1)

\* xx when the x loop reaches the next pixel: the zoom loop has moved it,
\* and nothing else does (skip is not looked at)
NextXX(zst, k) == zst.xx

\* the end of one pass of the x loop for a decoded pixel: zst is the state
\* the z loop ended in, avg the colour after averaging, out the colour after
\* masking, which is what rgb holds from then on
StorePixel(cfg, buf, x, rs, zst, avg, out) ==
    [xx |-> NextXX(zst, cfg.skip),
     last |-> buf[x],
     rgb |-> out,
     pngbyte |-> Append(rs.pngbyte, out),
     starts |-> Append(rs.starts, rs.xx),
     raw |-> Append(rs.raw, avg),
     hist |-> Append(rs.hist, rs.last),
     rd |-> rs.rd \cup zst.rd \cup {x}]

MaskPixel(cfg, buf, x, rs, zst, avg) ==
    StorePixel(cfg, buf, x, rs, zst, avg, ApplyMask(cfg.mask, avg))

DecodePixel(cfg, buf, x, rs, zst) ==
    MaskPixel(cfg, buf, x, rs, zst, Average(cfg.zoom, zst))

\* for (x = 0, xx = 0; x < width; x++): rs holds xx, last, rgb, the row
\* buffer, and a log of where each pixel started, its colour before masking,
\* what `last` held when it was decoded and the cells read.  The z loop
\* starts from the rgb the pixel before left: with zoom < 1 it does not run
\* and that rgb is the pixel.
RECURSIVE PixelLoop(_, _, _, _, _)
PixelLoop(cfg, buf, in, x, rs) ==
    IF x < cfg.width
    THEN IF Exhausted(rs.xx, pal2chrs(cfg.pal), in)
         THEN PixelLoop(cfg, buf, in, x + 1,
                        [rs EXCEPT !.pngbyte = Append(@, Black),
                                   !.starts = Append(@, -1),
                                   !.raw = Append(@, Black),
                                   !.hist = Append(@, Uninit)])
         ELSE PixelLoop(cfg, buf, in, x + 1,
                        DecodePixel(cfg, buf, x, rs,
                                    ZoomLoop(cfg.pal, cfg.zoom, buf, rs.last,
                                             cfg.ord, 0,
                                             [xx |-> rs.xx, sum |-> <<0, 0, 0>>,
                                              rgb |-> rs.rgb, rd |-> {}])))
    ELSE rs

BuildRow(cfg, buf, in, lst, col) ==
    PixelLoop(cfg, buf, in, 0,
              [xx |-> 0, last |-> lst, rgb |-> col, pngbyte |-> <<>>,
               starts |-> <<>>, raw |-> <<>>, hist |-> <<>>, rd |-> {}])

\* read(infile, inbuf, n) on a regular file: the bytes from the cursor on,
\* at most n of them
ReadCount(f, pos, n) == Max(0, Min(n, Len(f) - pos))

\* inbuf after the read: the first `in` cells hold file bytes, the others
\* keep what they held
ReadInto(buf, f, pos, in) ==
    [i \in DOMAIN buf |-> IF i < in THEN f[pos + i + 1] ELSE buf[i]]

(***************************************************************************)
(* The state of a run.                                                     *)
(***************************************************************************)
VARIABLES
    pc,          \* where the run is: "main", "doimage", "rows", "exit"
    width,       \* -w
    height,      \* -h, replaced by the full height when main autoscales
    height_max,  \* -h as given on the command line
    skip,        \* -k
    zoom,        \* -z
    mask,        \* FALSE when -M is given
    hscale,      \* FALSE when -H is given
    pal,         \* -p
    seek,        \* -s
    present,     \* the input file exists
    file,        \* the bytes of the input file
    order,       \* the operand offsets the build gives color16 / color32;
                 \* <<>> before doimage is entered
    fullheight,  \* main's fullheight
    notice,      \* "Truncating height" was printed
    pos,         \* the read offset of infile
    inbuf,       \* the input buffer of doimage
    last,        \* doimage's last
    rgb,         \* doimage's rgb where a pixel can read it before writing it
    y,           \* doimage's y: the rows handed to png_write_row so far
    in,          \* the result of the latest read
    pngbyte,     \* the row buffer, as handed to png_write_row
    starts,      \* for each pixel of the latest row, xx when it was decoded
    raw,         \* for each pixel of the latest row, rgb before masking
    hist,        \* for each pixel of the latest row, `last` when it was decoded
    reads,       \* the cells of inbuf read while building the latest row
    exitcode     \* the exit status of the process

vars ==
    <<pc, width, height, height_max, skip, zoom, mask, hscale, pal, seek,
      present, file, order, fullheight, notice, pos, inbuf, last, rgb, y, in,
      pngbyte, starts, raw, hist, reads, exitcode>>

args ==
    <<width, height_max, skip, zoom, mask, hscale, pal, seek, present, file>>

\* the values of -p: the fourteen palettes and a name atopal does not know
PaletteNames == Palettes \cup {"none"}

\* n bytes that start at a and step by d
FileOf(n, a, d) == [i \in 1..n |-> (a + (i - 1) * d) % 256]

\* the input files of the model: the first n bytes of 7, 90, 173, 0, 83,
\* 166, 249, 76, ... for every n, and the longest file of the byte 255
Files ==
    {FileOf(n, 7, 83) : n \in 0..MaxFileLen} \cup {FileOf(MaxFileLen, 255, 0)}

\* the values of -s
Seeks == {0, 1}

\* The state when main() starts, the command line in argv.  -w, -h, -k and
\* -z range over -1, 0 and the positive values (atoi takes them all), in
\* every combination.
Init ==
    /\ pc = "main"
    /\ pal \in PaletteNames
    /\ width \in -1..MaxWidth
    /\ height_max \in -1..MaxHeight
    /\ height = height_max
    /\ skip \in -1..MaxSkip
    /\ zoom \in -1..MaxZoom
    /\ mask \in BOOLEAN
    /\ hscale \in BOOLEAN
    /\ seek \in Seeks
    /\ present \in BOOLEAN
    /\ file \in (IF present THEN Files ELSE {<<>>})
    /\ order = <<>>
    /\ fullheight = 0
    /\ notice = FALSE
    /\ pos = 0
    /\ inbuf = <<>>
    /\ last = Uninit
    /\ rgb = UninitRgb
    /\ y = 0
    /\ in = 0
    /\ pngbyte = <<>>
    /\ starts = <<>>
    /\ raw = <<>>
    /\ hist = <<>>
    /\ reads = {}
    /\ exitcode = Uninit

(***************************************************************************)
(* main(): the option loop, the option check, stat, the height             *)
(* computation, open and lseek.                                            *)
(***************************************************************************)
FullHeight(size, w, z, k, chrs) == CeilQuot(CDiv(size, z * k * chrs), w)

UsageError(w, h, k, z) == w = 0 \/ h = 0 \/ k = 0 \/ z = 0

\* how main() ends when it does not get to doimage: atopal exits with 3 in
\* the option loop, usage() with 1 after it, and a failed stat returns 2
MainExit ==
    IF pal \notin Palettes THEN 3
    ELSE IF UsageError(width, height, skip, zoom) THEN 1
    ELSE IF ~present THEN 2
    ELSE 0

Main ==
    /\ pc = "main"
    /\ IF MainExit # 0
       THEN /\ pc' = "exit"
            /\ exitcode' = MainExit
            /\ UNCHANGED <<height, fullheight, notice, pos>>
       ELSE LET fh == FullHeight(Len(file), width, zoom, skip, pal2chrs(pal)) IN
            /\ fullheight' = fh
            /\ notice' = (fh > height)
            /\ height' = IF fh > height THEN height
                         ELSE IF hscale THEN fh ELSE height
            /\ pos' = seek
            /\ pc' = "doimage"
            /\ UNCHANGED exitcode
    /\ UNCHANGED <<args, order, inbuf, last, rgb, y, in, pngbyte, starts, raw,
                   hist, reads>>

(***************************************************************************)
(* doimage(): the prologue.  A negative int product becomes a size_t that  *)
(* malloc cannot serve, and png_set_IHDR rejects a width or height outside *)
(* 1..2^31-1; both leave through `out` with code 1.                        *)
(***************************************************************************)
BufSize(w, k, z, chrs) == w * k * z * chrs

SetupFails(w, h, k, z, chrs) ==
    \/ w * k * z * 3 < 0
    \/ BufSize(w, k, z, chrs) < 0
    \/ w <= 0
    \/ h <= 0

Setup ==
    /\ pc = "doimage"
    /\ IF SetupFails(width, height, skip, zoom, pal2chrs(pal))
       THEN /\ pc' = "exit"
            /\ exitcode' = 1
            /\ UNCHANGED <<inbuf, y, order>>
       ELSE /\ order' \in EvalOrders(pal)
            /\ inbuf' = [i \in 0..(BufSize(width, skip, zoom, pal2chrs(pal)) - 1)
                           |-> Uninit]
            /\ y' = 0
            /\ pc' = "rows"
            /\ UNCHANGED exitcode
    /\ UNCHANGED <<args, height, fullheight, notice, pos, last, rgb, in,
                   pngbyte, starts, raw, hist, reads>>

(***************************************************************************)
(* doimage(): one iteration of the y loop.                                 *)
(***************************************************************************)
Config == [pal |-> pal, width |-> width, zoom |-> zoom, skip |-> skip,
           mask |-> mask, ord |-> order]

\* the dvi palette is about to read `last` before anything was stored in it
LastUnset(n) ==
    pal = "dvi" /\ last = Uninit /\ zoom >= 1
       /\ ~Exhausted(0, pal2chrs(pal), n)

\* what the row finds in `last`
LastValues(n) == IF LastUnset(n) THEN Garbage ELSE {last}

\* rgb after the row as the next row can see it: with zoom >= 1 a pixel
\* writes rgb before it reads it, and nothing is carried
Carried(col) == IF zoom < 1 THEN col ELSE UninitRgb

\* The cells the read does not reach keep what they held: the bytes of an
\* earlier row or, never written, Uninit.
Row ==
    /\ pc = "rows"
    /\ y < height
    /\ \E n \in {ReadCount(file, pos, width * pal2chrs(pal) * skip * zoom)} :
       \E buf1 \in {ReadInto(inbuf, file, pos, n)} :
       \E l \in LastValues(n) :
       \E row \in {BuildRow(Config, buf1, n, l, rgb)} :
          /\ in' = n
          /\ pos' = pos + n
          /\ inbuf' = buf1
          /\ last' = row.last
          /\ rgb' = Carried(row.rgb)
          /\ pngbyte' = row.pngbyte
          /\ starts' = row.starts
          /\ raw' = row.raw
          /\ hist' = row.hist
          /\ reads' = row.rd
          /\ y' = y + 1
    /\ UNCHANGED <<args, order, pc, height, fullheight, notice, exitcode>>

(***************************************************************************)
(* doimage(): png_write_end after the last row, and the return to main.    *)
(* The row buffer is freed and the locals of doimage are gone; y is kept   *)
(* as the number of rows of the image.                                     *)
(***************************************************************************)
WriteEnd ==
    /\ pc = "rows"
    /\ ~(y < height)
    /\ pc' = "exit"
    /\ exitcode' = 0
    /\ inbuf' = <<>>
    /\ last' = Uninit
    /\ rgb' = UninitRgb
    /\ in' = 0
    /\ pngbyte' = <<>>
    /\ starts' = <<>>
    /\ raw' = <<>>
    /\ hist' = <<>>
    /\ reads' = {}
    /\ UNCHANGED <<args, order, height, fullheight, notice, pos, y>>

Next == Main \/ Setup \/ Row \/ WriteEnd

Spec == Init /\ [][Next]_vars

(***************************************************************************)
(* What the properties below talk about, in terms of the input file alone. *)
(***************************************************************************)
chrs == pal2chrs(pal)

\* a row has been built and is in the row buffer
Started == pc = "rows" /\ y >= 1

\* the last row has been built
LastRow == Started /\ y = height

\* the run ended with a complete image
Finished == pc = "exit" /\ exitcode = 0

\* the bytes one row asks for
RowBytes == width * chrs * skip * zoom

\* the offset in the file of the chunk of row r (rows count from 1)
RowOffset(r) == seek + (r - 1) * RowBytes

\* how many bytes of the chunk of row r the file holds
Avail(r) ==
    IF Len(file) - RowOffset(r) <= 0 THEN 0
    ELSE IF Len(file) - RowOffset(r) >= RowBytes THEN RowBytes
    ELSE Len(file) - RowOffset(r)

\* sample s of pixel x of row r (x and s count from 0), as a buffer of its own
Unit(r, x, s) ==
    [i \in 0..(chrs - 1) |-> file[RowOffset(r) + (x * zoom + s) * chrs + i + 1]]

\* the palette colour of that sample, l being the dvi history byte
SampleColour(r, x, s, l) == Sample(pal, Unit(r, x, s), 0, l, order).rgb

\* all zoom samples of pixel x lie inside the bytes read for row r
Inside(r, x) == zoom >= 1 /\ (x + 1) * chrs * zoom <= Avail(r)

\* a set that holds every value a byte of the row buffer can have: any byte
\* for an unassigned one, any with its low bit clear for a masked one
Bytes(v) ==
    IF v = Uninit THEN Garbage
    ELSE IF v = UninitMasked THEN {BitAnd(g, BYTE_MASK) : g \in Garbage}
    ELSE {v}

\* the pixel is (0,0,0) whatever its unassigned bytes hold
IsBlack(p) == \A c \in 1..3 : Bytes(p[c]) = {0}

RECURSIVE ChannelSum(_, _, _, _, _)
ChannelSum(r, x, n, l, c) ==
    IF n = 0 THEN 0
    ELSE SampleColour(r, x, n - 1, l)[c] + ChannelSum(r, x, n - 1, l, c)

(***************************************************************************)
(* C1  End-of-input fill, as claimed.  Every row handed to the encoder has *)
(* `width` pixels; a pixel whose first unit of chrs bytes, at byte         *)
(* x*chrs*zoom of the chunk, does not lie wholly inside the bytes read for *)
(* its row is (0,0,0); after a row whose read came back short every pixel  *)
(* of every later row is (0,0,0); and a run that ends normally has handed  *)
(* over exactly `height` rows.                                             *)
(***************************************************************************)
\* the first unit of pixel x lies inside the bytes read for row r
FirstUnitInside(r, x) ==
    x * chrs * zoom >= 0 /\ x * chrs * zoom + chrs <= Avail(r)

C1_EndOfInputFill ==
    /\ Started =>
          /\ Len(pngbyte) = width
          /\ \A x \in 0..(width - 1) :
                ~FirstUnitInside(y, x) => IsBlack(pngbyte[x + 1])
          /\ (\E r \in 1..(y - 1) : Avail(r) < RowBytes) =>
                \A x \in 1..width : IsBlack(pngbyte[x])
    /\ pc = "rows" => y <= height
    /\ Finished => y = height

(***************************************************************************)
(* C2  Masking.  With the mask flag on, every channel of every pixel       *)
(* handed to the encoder is even, and is the computed colour with its low  *)
(* bit cleared; with the flag off the pixel is the computed colour.  (For  *)
(* a channel stored from an unassigned byte: whatever the byte holds.)     *)
(***************************************************************************)
C2_Masking ==
    \A x \in 1..Len(pngbyte) : \A c \in 1..3 :
       /\ mask => \A b \in Bytes(pngbyte[x][c]) : b % 2 = 0
       /\ Bytes(pngbyte[x][c]) =
             IF mask THEN {r - (r % 2) : r \in Bytes(raw[x][c])}
             ELSE Bytes(raw[x][c])
       /\ ~mask => pngbyte[x][c] = raw[x][c]

\* a masked row in which a computed channel was odd
C2_Witness ==
    /\ Started
    /\ mask
    /\ \E x \in 1..Len(pngbyte) :
          /\ raw[x][3] \in Garbage
          /\ raw[x][3] % 2 = 1
          /\ pngbyte[x][3] = raw[x][3] - 1

(***************************************************************************)
(* C5  Row-major placement with the gray palette.  For zoom 1, skip 1,     *)
(* mask off, offset 0 and an input of at least width*height bytes, pixel   *)
(* (x, y) is (b,b,b) for b the input byte at offset y*width + x, the rows  *)
(* being handed over in the order y = 0 .. height-1.                       *)
(***************************************************************************)
C5_RowMajorGray ==
    (/\ Started
     /\ pal = "gray" /\ zoom = 1 /\ skip = 1 /\ ~mask /\ seek = 0
     /\ Len(file) >= width * height)
    => /\ y <= height
       /\ Len(pngbyte) = width
       /\ \A x \in 1..width :
             LET b == file[(y - 1) * width + x] IN pngbyte[x] = <<b, b, b>>

\* the bytes 7, 90, 173, 0 rendered as a 2 x 2 image: the second row
C5_Witness ==
    /\ LastRow
    /\ pal = "gray" /\ zoom = 1 /\ skip = 1 /\ ~mask /\ seek = 0
    /\ width = 2 /\ height = 2 /\ y = 2
    /\ Len(file) >= 4
    /\ pngbyte = << <<173, 173, 173>>, Black >>

(***************************************************************************)
(* C6  Zoom averaging.  With the mask off, a pixel whose samples all lie   *)
(* inside the bytes read is, for zoom 1, the palette colour of its one     *)
(* sample and, for zoom N > 1, channel by channel the truncated quotient   *)
(* of the sum of its N sample colours by N; N identical samples give that  *)
(* sample's colour.  (The dvi colour of a sample also depends on a history *)
(* byte, which is the same for all samples of a pixel.)                    *)
(***************************************************************************)
C6_ZoomAverage ==
    (Started /\ ~mask) =>
       \A x \in 0..(width - 1) :
          Inside(y, x) =>
             /\ zoom = 1 => pngbyte[x + 1] = SampleColour(y, x, 0, hist[x + 1])
             /\ zoom > 1 =>
                   \A c \in 1..3 :
                      pngbyte[x + 1][c] =
                         ChannelSum(y, x, zoom, hist[x + 1], c) \div zoom
             /\ (\A s \in 0..(zoom - 1) : Unit(y, x, s) = Unit(y, x, 0))
                   => pngbyte[x + 1] = SampleColour(y, x, 0, hist[x + 1])

\* a color32 pixel averaged from two different samples whose sum is odd on
\* some channel: the quotient is truncated
C6_Witness ==
    /\ Started /\ ~mask
    /\ zoom = 2
    /\ pal = "color32"
    /\ Inside(y, 0)
    /\ Unit(y, 0, 0) # Unit(y, 0, 1)
    /\ \E c \in 1..3 :
          /\ ChannelSum(y, 0, 2, 0, c) % 2 = 1
          /\ pngbyte[1][c] * 2 + 1 = ChannelSum(y, 0, 2, 0, c)

(***************************************************************************)
(* C7  The skip factor.  As claimed: with skip > 1 bytes are dropped       *)
(* between the pixels of a row, so that two consecutive decoded pixels     *)
(* start more than chrs*zoom bytes apart in the chunk.                     *)
(***************************************************************************)
C7_SkipBetweenPixels ==
    (Started /\ skip > 1) =>
       \A x \in 1..(Len(starts) - 1) :
          (starts[x] >= 0 /\ starts[x + 1] >= 0)
             => starts[x + 1] - starts[x] > chrs * zoom

(***************************************************************************)
(* C7, as the code has it.  For every skip >= 1, decoded pixel x starts at *)
(* byte x*chrs*zoom of the chunk, so consecutive decoded pixels are        *)
(* exactly chrs*zoom bytes apart and every cell read lies in the first     *)
(* width*chrs*zoom bytes of the chunk; the chunk of row r starts at byte   *)
(* r*width*chrs*zoom*skip of the input, so the bytes dropped are the last  *)
(* width*chrs*zoom*(skip-1) bytes of every chunk, after the last pixel.    *)
(***************************************************************************)
C7_SkipAfterRow ==
    (Started /\ skip >= 1) =>
       /\ \A x \in 1..Len(starts) :
             starts[x] >= 0 => starts[x] = (x - 1) * chrs * zoom
       /\ \A i \in reads : i < width * chrs * zoom
       /\ in = Avail(y)
       /\ pos = RowOffset(y) + in \/ (in = 0 /\ pos >= Len(file))
       /\ \A i \in 0..(in - 1) : inbuf[i] = file[RowOffset(y) + i + 1]

\* the second row of a skip 2 render: two pixels decoded from the first half
\* of a chunk that was read in full
C7_Witness ==
    /\ Started
    /\ skip = 2 /\ width = 2
    /\ y = 2
    /\ in = RowBytes
    /\ starts = <<0, chrs * zoom>>
    /\ pos = seek + 2 * RowBytes

(***************************************************************************)
(* C8  The dvi palette, as claimed.  Every sample has R = |cur - prev|,    *)
(* G = cur, B = (cur + prev) / 2, prev being the input byte just before    *)
(* the sample, and 0 for the first sample of the run; a pixel is the       *)
(* average of its samples.                                                 *)
(***************************************************************************)
\* the input byte just before sample s of pixel x of row r
PrevByte(r, x, s) ==
    LET off == RowOffset(r) + x * zoom + s IN
    IF off = seek THEN 0 ELSE file[off]

RECURSIVE DviSum(_, _, _, _)
DviSum(r, x, n, c) ==
    IF n = 0 THEN 0
    ELSE map_dvi(Unit(r, x, n - 1)[0], PrevByte(r, x, n - 1))[c]
            + DviSum(r, x, n - 1, c)

C8_DviHistory ==
    (Started /\ pal = "dvi") =>
       \A x \in 0..(width - 1) :
          Inside(y, x) =>
             \A c \in 1..3 : raw[x + 1][c] = DviSum(y, x, zoom, c) \div zoom

(***************************************************************************)
(* C10  No stale or out-of-range input is decoded, as claimed.  Decoded    *)
(* pixel x starts at xx = x*chrs*zoom, and every cell of inbuf read while  *)
(* building a row is at or above 0 and below `in`.                         *)
(***************************************************************************)
C10_ReadsBelowIn ==
    Started =>
       /\ \A x \in 1..Len(starts) :
             starts[x] >= 0 => starts[x] = (x - 1) * chrs * zoom
       /\ \A i \in reads : 0 <= i /\ i < in

(***************************************************************************)
(* C9  The render configuration, as claimed.  Whenever main has called     *)
(* doimage, width > 0, height > 0, zoom >= 1 and skip >= 1; a command line *)
(* with a value that is zero or negative ends with a non-zero exit before  *)
(* doimage is called.                                                      *)
(***************************************************************************)
C9_ConfigPositive ==
    /\ pc \in {"doimage", "rows"}
          => (width > 0 /\ height > 0 /\ zoom >= 1 /\ skip >= 1)
    /\ (pc # "main"
        /\ (width <= 0 \/ height_max <= 0 \/ zoom < 1 \/ skip < 1))
          => (pc = "exit" /\ exitcode \in {1, 2, 3} /\ y = 0)

(***************************************************************************)
(* C4  Height autoscaling, as claimed.  With autoscaling on, the full      *)
(* height is ceil(S / (Z*K*C) / W) in exact arithmetic; when it is at most *)
(* the maximum the render height is the full height, otherwise the render  *)
(* height is the maximum and the truncation notice is printed.             *)
(***************************************************************************)
\* ceil(S / d / w) for positive d and w
ExactCeil(S, d, w) == (S + d * w - 1) \div (d * w)

C4_AutoHeight ==
    (/\ pc # "main"
     /\ MainExit = 0
     /\ hscale
     /\ width > 0 /\ height_max > 0 /\ zoom > 0 /\ skip > 0)
    => /\ fullheight = ExactCeil(Len(file), zoom * skip * chrs, width)
       /\ fullheight <= height_max => (height = fullheight /\ ~notice)
       /\ fullheight > height_max => (height = height_max /\ notice)

(***************************************************************************)
(* C3  Masking makes the image irreversible, as claimed.  With the mask    *)
(* on, zoom 1 and skip 1, for every palette two different inputs of the    *)
(* same length give the same image.  The inputs are those of one unit,     *)
(* rendered as the one pixel of a 1 x 1 image that shows the whole input.  *)
(***************************************************************************)
\* the inputs of one unit: every byte for the one-byte palettes, and the
\* units over a few bytes for the others
UnitBytes == {0, 1, 32, 255}

UnitInputs(p) ==
    IF pal2chrs(p) = 1 THEN {<<b>> : b \in 0..255}
    ELSE [1..pal2chrs(p) -> UnitBytes]

\* the 1 x 1 image of input f: doimage's pixel loop on the chunk f, g being
\* what `last` holds
OnePixelImage(p, ord, f, g) ==
    << BuildRow([pal |-> p, width |-> 1, zoom |-> 1, skip |-> 1,
                 mask |-> TRUE, ord |-> ord],
                [i \in 0..(Len(f) - 1) |-> f[i + 1]], Len(f), g,
                UninitRgb).pngbyte >>

\* two different inputs of one unit have the same image
Collides(p, ord, g) ==
    Cardinality({OnePixelImage(p, ord, f, g) : f \in UnitInputs(p)})
       < Cardinality(UnitInputs(p))

\* what the one pixel can depend on besides the input
Histories(p) == IF p = "dvi" THEN Garbage ELSE {0}

CollidingPalettes ==
    {po \in UNION {{<<p, o>> : o \in EvalOrders(p)} : p \in Palettes} :
        \A g \in Histories(po[1]) : Collides(po[1], po[2], g)}

C3_MaskIrreversible ==
    (/\ LastRow
     /\ mask /\ zoom = 1 /\ skip = 1 /\ seek = 0
     /\ width = 1 /\ height = 1 /\ Len(file) = chrs)
    => <<pal, order>> \in CollidingPalettes

====
